---- MODULE Spec2Model ----
(***************************************************************************)
(* Escrow settlement of one order: releaseEscrowFunds (server/services/    *)
(* escrowService.js) run by a timer-fired invocation and by manually       *)
(* triggered invocations, against a ledger that applies submitted          *)
(* messages asynchronously (Spec, SplitSpec, RestoreSpec); its seller      *)
(* lookup getSellerWalletAddress step by step (ProfileSpec) and its        *)
(* native-balance probe over every answer (ProbeSpec); the storing of the  *)
(* order's wallet record by storeWalletForOrder (StoreSpec) and its        *)
(* reading by a release (StoreReleaseSpec); and processPayment with its    *)
(* background recorder and the transactions collection written by          *)
(* storeTransaction (PaySpec, PayAgainSpec, TxSpec).                       *)
(***************************************************************************)
EXTENDS Integers, Sequences, FiniteSets, TLC

(* ---------------- bounds ---------------- *)
\* number of manual invocations of the release for the order
MaxManual == 1
\* largest total the split is enumerated over in SplitSpec
MaxTotal == 120

\* calls of storeWalletForOrder for the order
MaxStoreCalls == 2
\* requests POST /api/payment/process made in PaySpec
MaxPayCalls == 1
\* requests POST /api/transactions/buyer-to-server
MaxBuyerPosts == 1
\* most words of a stored phrase in RestoreSpec
MaxWords == 25
\* most spaces before a phrase, after it, and more after its first word
MaxPad == 1

(* ---------------- program constants ---------------- *)
serverPercentage == 5
sellerPercentage == 95
\* toNano('0.1'), in nanoTON
MIN_TON_FOR_EXTERNAL_MESSAGE == 100000000
amountToSend == 100000000
\* toNano('0.01')
gasFee == 10000000
\* the number of words of a wallet's secret phrase
MnemonicLength == 24
\* toNano('0.038')
JETTON_TRANSFER_GAS_FEES == 38000000
\* let retries = 3 in getSellerWalletAddress
initialRetries == 3

(* ---------------- environment the behaviours range over ---------------- *)
Procs == {"timer", "manual"}
\* token deposits of the buyer, smallest units: nothing, a dust amount whose
\* 5% floors to zero, an amount whose split leaves a remainder
Deposits == {0, 7, 30}
\* native balance of the escrow wallet at deposit time: the wallet is freshly
\* generated for the order and receives TON only from the funding step
EscrowTonInit == {0}
\* native balance of the platform funding wallet
ServerTonInit == {50000000, 330000000}
Listings == {"missing", "noSeller", "wallet", "noWallet"}
MnemonicLengths == {23, 24}
\* the wallets createInvoiceWalletForOrder may generate, by the letter of
\* their words
Wallets == {"a", "b"}
\* the requests POST /api/payment/process: a first one, and another
PayCalls == {1, 2}
Orders == {"o1", "o2"}
\* the amount of a payment request: 0 for none (the whole balance is
\* processed), or an amount in token units
PayAmounts == {0, 30}
\* token balance of the platform wallet when the requests begin
ServerUsdtInit == {0, 50}
\* native balance of the platform wallet in PaySpec: below the gas of one
\* transfer, and enough for two
ServerTonPayInit == {30000000, 100000000}

VARIABLES
  \* ---- ledger store ----
  walletDoc,        \* orderWallets/{orderId}: the stored record, if it exists
  listing,          \* the listing of the order: one of Listings
  profileWallet,    \* users/{sellerId} carries a walletAddress (read only
                    \* when the listing has a seller and no address)
  serverMnemonicSet,\* process.env.SERVER_WALLET_MNEMONIC is configured
  serverAddressSet, \* process.env.SERVER_WALLET_ADDRESS is configured
  \* ---- chain ----
  deposit,          \* token balance of the escrow wallet when settlement began
  tokenBalance,     \* token balance of the escrow wallet
  pending,          \* token transfers submitted and not yet applied (FIFO)
  escrowTon,        \* native balance of the escrow wallet
  serverTon,        \* native balance of the platform funding wallet
  pendingTon,       \* funding transfers submitted and not yet applied
  \* ---- invocations of releaseEscrowFunds ----
  pc,               \* position of each invocation
  runs,             \* invocations started so far by each trigger
  outcome,          \* "none" while running, "Released" or the failure
  raised,           \* the invocation ended by throwing (the promise rejected)
  totalBalance,     \* local: the token balance read
  serverAmount,     \* local: the fee
  finalSellerAmount,\* local: the seller amount
  result,           \* the value returned on success
  log,              \* events of the current invocation, in order
  afterRelease,     \* the invocation started when the order was fully released
  \* ---- history of the order ----
  released,         \* some invocation returned success
  feeCount, sellerCount, feeSum, sellerSum, \* transfers submitted, in total
  fundCount,        \* funding transfers submitted, in total
  overlapped,       \* two invocations for the order have run at the same time
  \* ---- storeWalletForOrder ----
  realtimeDoc,      \* Realtime Database orderWallets/{orderId}
  swPc,             \* position of the call: idle, firestore, realtime, done
  swArgs,           \* walletData of the call
  swFirestoreSuccess, \* local: firestoreSuccess
  swReturn,         \* the value returned: "none" before, "true" or "false"
  swCalls,          \* calls made so far
  storedOnce,       \* some call has returned true
  \* ---- the server process ----
  timers,           \* callbacks registered with setTimeout and not yet run
  \* ---- processPayment and the transactions collection ----
  serverUsdt,       \* token balance of the platform wallet
  payPending,       \* payouts submitted and not yet applied (FIFO)
  txs,              \* transactions of the platform token wallet, oldest first
  payPc,            \* position of each request: idle, send, done
  payOrder,         \* orderId of each request
  payAmount,        \* amount of each request, 0 for none
  payTotal,         \* local: amountToProcess
  payOutcome,       \* "none" while running, "Success" or the error thrown
  payResult,        \* the value returned by processPayment
  recPc,            \* the recorder of each request: none, query, store, done
  recHash,          \* local of the recorder: transactionHash
  recOutcome,       \* how the recorder ended
  recStore,         \* what storeTransaction gave the recorder
  transactions,     \* the collection 'transactions': a set of documents
  buyerPosts,       \* buyer-to-server requests handled so far
  buyerStore,       \* what storeTransaction gave the last such request
  orderDeposit,     \* what the buyer of each order paid into the platform wallet
  \* ---- a call of getSellerWalletAddress ----
  gsPc,             \* position of the call: idle, read, wait, done
  retries,          \* local: attempts left
  userDoc,          \* local: the profile snapshot, "null" before a read succeeds
  lastError,        \* local: the last error caught in the loop
  gsReads,          \* the profile reads attempted, by their outcomes, in order
  gsReturn,         \* the value returned: "none" before the call returns
  gsThrew,          \* the call ended by throwing
  \* ---- the native-balance probe on its own ----
  probePc,          \* idle, done
  probeArgs,        \* what each of the three queries answers
  probeResult       \* escrowTonBalance, or the error thrown

chainVars == <<deposit, tokenBalance, pending, escrowTon, serverTon, pendingTon>>
storeVars == <<walletDoc, listing, profileWallet, serverMnemonicSet, serverAddressSet>>
localVars == <<totalBalance, serverAmount, finalSellerAmount, result>>
histVars  == <<released, feeCount, sellerCount, feeSum, sellerSum, fundCount, overlapped>>
releaseVars == <<chainVars, pc, runs, outcome, raised, localVars, log, afterRelease, histVars>>
walletStoreVars == <<realtimeDoc, swPc, swArgs, swFirestoreSuccess, swReturn, swCalls, storedOnce>>
payVars == <<serverUsdt, payPending, txs, payPc, payOrder, payAmount, payTotal,
             payOutcome, payResult, recPc, recHash, recOutcome, recStore,
             transactions, buyerPosts, buyerStore, orderDeposit>>
sellerVars == <<gsPc, retries, userDoc, lastError, gsReads, gsReturn, gsThrew>>
\* what releaseEscrowFunds neither reads nor writes
probeVars == <<probePc, probeArgs, probeResult>>
outsideRelease == <<walletStoreVars, timers, payVars, sellerVars, probeVars>>
\* what storeWalletForOrder neither reads nor writes
outsideStore == <<listing, profileWallet, serverMnemonicSet, serverAddressSet,
                  releaseVars, timers, payVars, sellerVars, probeVars>>
vars == <<storeVars, releaseVars, walletStoreVars, timers, payVars, sellerVars,
          probeVars>>

(* ---------------- secret phrases ---------------- *)
\* A phrase is a string, modelled as the sequence of its characters: the
\* letter of a one-letter word, or a space.
Spaces(k) == [i \in 1..k |-> " "]
RECURSIVE Words(_, _)
\* n more words, each after one space
Words(w, n) == IF n = 0 THEN <<>> ELSE <<" ", w>> \o Words(w, n - 1)
\* n words of letter w joined by single spaces (Array.join(' ')), with lead
\* spaces before the first word, gap more spaces after it, trail at the end
Phrase(w, n, lead, gap, trail) ==
  Spaces(lead)
    \o (IF n = 0 THEN <<>> ELSE <<w>> \o Spaces(gap) \o Words(w, n - 1))
    \o Spaces(trail)
PlainPhrase(w, n) == Phrase(w, n, 0, 0, 0)

NoWalletDoc == [exists |-> FALSE, mnemonic |-> <<>>, walletAddress |-> "none", itemId |-> FALSE]

\* no call of storeWalletForOrder is under way; both databases hold the
\* same record
NoStoreCall ==
  /\ realtimeDoc = walletDoc
  /\ swPc = "idle"
  /\ swArgs = NoWalletDoc
  /\ swFirestoreSuccess = FALSE
  /\ swReturn = "none"
  /\ swCalls = 0
  /\ storedOnce = walletDoc.exists

\* getSellerWalletAddress has not been called
NoSellerCall ==
  /\ gsPc = "idle"
  /\ retries = 0
  /\ userDoc = "null"
  /\ lastError = "null"
  /\ gsReads = <<>>
  /\ gsReturn = "none"
  /\ gsThrew = FALSE

NoProbeArgs == [r1 |-> "ok", r2 |-> "ok", r3 |-> "ok", b1 |-> 0, b2 |-> 0, b3 |-> 0]
NoProbeResult == [ok |-> FALSE, balance |-> 0, tried |-> <<>>]
\* the probe has not been run on its own
NoProbe ==
  /\ probePc = "idle"
  /\ probeArgs = NoProbeArgs
  /\ probeResult = NoProbeResult

NoPayResult == [success |-> FALSE, sellerAmount |-> 0, serverAmount |-> 0, totalAmount |-> 0]
NoStoreResult == [called |-> FALSE, returned |-> FALSE, threw |-> FALSE]
NoHash == <<"none", 0>>

\* no payment request has been made; the transactions collection is empty
NoPayment ==
  /\ serverUsdt = 0
  /\ payPending = <<>>
  /\ txs = <<>>
  /\ payPc = [c \in PayCalls |-> "idle"]
  /\ payOrder = [c \in PayCalls |-> "none"]
  /\ payAmount = [c \in PayCalls |-> 0]
  /\ payTotal = [c \in PayCalls |-> 0]
  /\ payOutcome = [c \in PayCalls |-> "none"]
  /\ payResult = [c \in PayCalls |-> NoPayResult]
  /\ recPc = [c \in PayCalls |-> "none"]
  /\ recHash = [c \in PayCalls |-> NoHash]
  /\ recOutcome = [c \in PayCalls |-> "none"]
  /\ recStore = [c \in PayCalls |-> NoStoreResult]
  /\ transactions = {}
  /\ buyerPosts = 0
  /\ buyerStore = NoStoreResult
  /\ orderDeposit = [o \in Orders |-> 0]

NoResult == [success |-> FALSE, serverAmount |-> 0, sellerAmount |-> 0, totalAmount |-> 0]

Failures == {"WalletNotFound", "FundingFailed", "NoItemId", "ListingNotFound",
             "NoSellerId", "SellerWalletMissing", "ServerAddressMissing",
             "InvalidSecret", "BalanceProbeFailed", "InsufficientTon",
             "TokenProbeFailed", "EmptyBalance", "InvalidTotalBalance",
             "InvalidServerAmount",
             "InvalidSellerAmount", "TransferRejected", "TransferFailed"}

Init ==
  /\ walletDoc \in {NoWalletDoc} \cup
        [exists : {TRUE}, mnemonic : {PlainPhrase("a", n) : n \in MnemonicLengths},
         walletAddress : {"escrowA"}, itemId : BOOLEAN]
  /\ listing \in Listings
  /\ profileWallet \in (IF listing = "noWallet" THEN BOOLEAN ELSE {FALSE})
  /\ serverMnemonicSet \in BOOLEAN
  /\ serverAddressSet \in BOOLEAN
  /\ deposit \in Deposits
  /\ tokenBalance = deposit
  /\ pending = <<>>
  /\ escrowTon \in EscrowTonInit
  /\ serverTon \in ServerTonInit
  /\ pendingTon = 0
  /\ pc = [p \in Procs |-> "idle"]
  /\ runs = [p \in Procs |-> 0]
  /\ outcome = [p \in Procs |-> "none"]
  /\ raised = [p \in Procs |-> FALSE]
  /\ totalBalance = [p \in Procs |-> 0]
  /\ serverAmount = [p \in Procs |-> 0]
  /\ finalSellerAmount = [p \in Procs |-> 0]
  /\ result = [p \in Procs |-> NoResult]
  /\ log = [p \in Procs |-> <<>>]
  /\ afterRelease = [p \in Procs |-> FALSE]
  /\ released = FALSE
  /\ feeCount = 0 /\ sellerCount = 0 /\ feeSum = 0 /\ sellerSum = 0
  /\ fundCount = 0
  /\ overlapped = FALSE
  /\ NoStoreCall
  /\ NoSellerCall
  /\ NoProbe
  /\ timers = {}
  /\ NoPayment

(* ---------------- helpers ---------------- *)
\* the throw paths of releaseEscrowFunds: the catch block rethrows, the
\* invocation ends with the failure
Fail(p, reason) ==
  /\ pc' = [pc EXCEPT ![p] = "done"]
  /\ outcome' = [outcome EXCEPT ![p] = reason]
  /\ raised' = [raised EXCEPT ![p] = TRUE]

Goto(p, label) ==
  /\ pc' = [pc EXCEPT ![p] = label]
  /\ UNCHANGED <<outcome, raised>>

\* the events of an invocation, with the amount read or submitted
Logged(p, e, a) == log' = [log EXCEPT ![p] = Append(@, [ev |-> e, amount |-> a])]

InLog(p, e) == \E i \in DOMAIN log[p] : log[p][i].ev = e

\* the order is fully released: a release returned success and the ledger
\* has applied every submitted transfer, leaving no tokens in the escrow
Settled == released /\ pending = <<>> /\ tokenBalance = 0

RunLimit(p) == IF p = "timer" THEN 1 ELSE MaxManual

(* ---------------- SplitCalculator (step 11) ---------------- *)
\* BigInt division truncates; all operands are non-negative
\* (mutation) the fee is rounded up
splitServerAmount_RoundedUp(t) == (t * serverPercentage + 99) \div 100

splitServerAmount(t) == (t * serverPercentage) \div 100
splitSellerAmount(t) == (t * sellerPercentage) \div 100
splitDifference(t) == t - (splitServerAmount(t) + splitSellerAmount(t))
\* (mutation) the rounding difference is dropped
splitFinalSellerAmount_NoDifference(t) == splitSellerAmount(t)

splitFinalSellerAmount(t) == splitSellerAmount(t) + splitDifference(t)

\* the validation of the computed amounts: a BigInt 0n is falsy
SplitError(t) ==
  IF t = 0 THEN "InvalidTotalBalance"
  ELSE IF splitServerAmount(t) = 0 THEN "InvalidServerAmount"
  ELSE IF splitSellerAmount(t) = 0 THEN "InvalidSellerAmount"
  ELSE IF splitFinalSellerAmount(t) = 0 THEN "InvalidSellerAmount"
  ELSE "none"

(* ---------------- BalanceProbe (step 7) ---------------- *)
ProbeResults == {"ok", "notDeployed", "error"}
\* (mutation) every error of the last strategy counts as not deployed
nativeBalance_AnyErrorIsZero(r1, r2, r3, b1, b2, b3) ==
  IF r1 = "ok" THEN [ok |-> TRUE, balance |-> b1, tried |-> <<"getBalance">>]
  ELSE IF r2 = "ok"
    THEN [ok |-> TRUE, balance |-> b2, tried |-> <<"getBalance", "getAccount">>]
  ELSE IF r3 = "ok"
    THEN [ok |-> TRUE, balance |-> b3, tried |-> <<"getBalance", "getAccount", "get">>]
  ELSE [ok |-> TRUE, balance |-> 0, tried |-> <<"getBalance", "getAccount", "get">>]

\* getBalance, then getAccount, then the contract get method, each answering
\* r and, when it succeeds, the balance b; a failed last strategy yields zero
\* only for an error that names the not-initialized exit code ('-13' or
\* 'exit_code' in its message); tried lists the queries made
nativeBalance(r1, r2, r3, b1, b2, b3) ==
  IF r1 = "ok" THEN [ok |-> TRUE, balance |-> b1, tried |-> <<"getBalance">>]
  ELSE IF r2 = "ok"
    THEN [ok |-> TRUE, balance |-> b2, tried |-> <<"getBalance", "getAccount">>]
  ELSE IF r3 = "ok"
    THEN [ok |-> TRUE, balance |-> b3, tried |-> <<"getBalance", "getAccount", "get">>]
  ELSE IF r3 = "notDeployed"
    THEN [ok |-> TRUE, balance |-> 0, tried |-> <<"getBalance", "getAccount", "get">>]
  ELSE [ok |-> FALSE, balance |-> 0, tried |-> <<"getBalance", "getAccount", "get">>]

(* ---------------- SellerDestination (step 4) ---------------- *)
ProfileReads == {"ok", "error"}
\* the listing's walletAddress first, then the profile; every error is
\* caught and becomes null
\* (mutation) the profile's address is returned without checking it is there
getSellerWalletAddress_Unchecked(l, profileRead, hasWallet) ==
  IF l = "wallet" THEN "listingAddress" ELSE "profileAddress"

getSellerWalletAddress(l, profileRead, hasWallet) ==
  IF l = "wallet" THEN "listingAddress"
  ELSE IF profileRead = "ok" /\ hasWallet THEN "profileAddress"
  ELSE "null"

(* ---------------- restoreWalletFromMnemonic ---------------- *)
RECURSIVE splitOnSpace(_)
\* String.prototype.split(' '): the pieces between the spaces, the empty
\* pieces included
splitOnSpace(s) ==
  IF \A i \in DOMAIN s : s[i] # " " THEN <<s>>
  ELSE LET k == CHOOSE i \in DOMAIN s :
                  s[i] = " " /\ \A j \in 1..(i - 1) : s[j] # " "
       IN <<SubSeq(s, 1, k - 1)>> \o splitOnSpace(SubSeq(s, k + 1, Len(s)))

IsWord(word) == Len(word) > 0
\* (mutation) the empty pieces are kept
mnemonicArray_Unfiltered(m) == splitOnSpace(m)

\* mnemonic.split(' ').filter(word => word.length > 0)
mnemonicArray(m) == SelectSeq(splitOnSpace(m), IsWord)

\* the length check, then the key pair and the w5 wallet derived from the
\* words; every error is rethrown as 'Failed to restore wallet'
restoreWalletFromMnemonic(m) ==
  IF Len(mnemonicArray(m)) # MnemonicLength
    THEN [ok |-> FALSE, address |-> <<>>]
    ELSE [ok |-> TRUE, address |-> mnemonicArray(m)]

(* ---------------- releaseEscrowFunds ---------------- *)
\* Each action is a stretch of releaseEscrowFunds between two calls that
\* touch the chain; reads of the order's stored records, which no
\* invocation writes, are taken with the stretch they belong to.

\* a trigger (the release timer, or the manual release request) invokes
\* releaseEscrowFunds; step 0: getWalletForOrder, for the address; first is
\* the step that follows it
StartAt(p, first) ==
  /\ pc[p] \in {"idle", "done"}
  /\ runs[p] < RunLimit(p)
  /\ runs' = [runs EXCEPT ![p] = @ + 1]
  /\ pc' = [pc EXCEPT ![p] = IF walletDoc.exists THEN first ELSE "done"]
  /\ outcome' = [outcome EXCEPT ![p] = IF walletDoc.exists THEN "none" ELSE "WalletNotFound"]
  /\ raised' = [raised EXCEPT ![p] = ~walletDoc.exists]
  /\ totalBalance' = [totalBalance EXCEPT ![p] = 0]
  /\ serverAmount' = [serverAmount EXCEPT ![p] = 0]
  /\ finalSellerAmount' = [finalSellerAmount EXCEPT ![p] = 0]
  /\ result' = [result EXCEPT ![p] = NoResult]
  /\ log' = [log EXCEPT ![p] = <<>>]
  /\ afterRelease' = [afterRelease EXCEPT ![p] = Settled]
  /\ overlapped' = (overlapped \/ (walletDoc.exists /\
                      \E q \in Procs \ {p} : pc[q] \notin {"idle", "done"}))
  /\ UNCHANGED <<storeVars, outsideRelease, chainVars, released, feeCount, sellerCount,
                 feeSum, sellerSum, fundCount>>

\* (mutation) the funding step is left out
Start_SkipFunding(p) == StartAt(p, "resolve")

Start(p) == StartAt(p, "fund")

\* step 1: sendTonToEscrowWallet; balanceRead is the outcome of the server
\* balance query (its failure is swallowed), sent the outcome of the send
SendTon(p) ==
  /\ pc[p] = "fund"
  /\ \E balanceRead \in {"ok", "error"}, sent \in BOOLEAN :
       LET serverBalance == IF balanceRead = "ok" THEN serverTon ELSE 0
           totalRequired == amountToSend + gasFee
       IN IF ~serverMnemonicSet
            \/ (serverBalance # 0 /\ serverBalance < totalRequired)
            \/ ~sent
          THEN /\ Fail(p, "FundingFailed")
               /\ UNCHANGED <<pendingTon, fundCount, log>>
          ELSE /\ Goto(p, "resolve")
               /\ pendingTon' = pendingTon + 1
               /\ fundCount' = fundCount + 1
               /\ Logged(p, "fund", amountToSend)
  /\ UNCHANGED <<storeVars, outsideRelease, deposit, tokenBalance, pending, escrowTon, serverTon,
                 runs, localVars, afterRelease,
                 released, feeCount, sellerCount, feeSum, sellerSum, overlapped>>

\* steps 2 to 6: getWalletForOrder again, the item id, the listing and its
\* seller id, the seller destination, the fee destination, and the restore
\* of the escrow wallet from the stored phrase
ResolveOrder(p) ==
  /\ pc[p] = "resolve"
  /\ \E profileRead \in ProfileReads :
       IF ~walletDoc.exists THEN Fail(p, "WalletNotFound") /\ UNCHANGED log
       ELSE IF ~walletDoc.itemId THEN Fail(p, "NoItemId") /\ UNCHANGED log
       ELSE IF listing = "missing" THEN Fail(p, "ListingNotFound") /\ UNCHANGED log
       ELSE IF listing = "noSeller" THEN Fail(p, "NoSellerId") /\ UNCHANGED log
       ELSE IF getSellerWalletAddress(listing, profileRead, profileWallet) = "null"
         THEN Fail(p, "SellerWalletMissing") /\ UNCHANGED log
       ELSE IF ~serverAddressSet
         THEN Fail(p, "ServerAddressMissing") /\ Logged(p, "sellerResolved", 0)
       ELSE IF ~restoreWalletFromMnemonic(walletDoc.mnemonic).ok
         THEN Fail(p, "InvalidSecret") /\ Logged(p, "sellerResolved", 0)
       ELSE /\ Goto(p, "tonProbe")
            /\ log' = [log EXCEPT ![p] =
                         @ \o << [ev |-> "sellerResolved", amount |-> 0],
                                 [ev |-> "restored", amount |-> 0] >>]
  /\ UNCHANGED <<storeVars, outsideRelease, chainVars, runs, localVars, afterRelease, histVars>>

\* (mutation) the minimum check is missing
BelowMinimum_Never(b) == FALSE

\* the check of the balance read against MIN_TON_FOR_EXTERNAL_MESSAGE
BelowMinimum(b) == b < MIN_TON_FOR_EXTERNAL_MESSAGE

\* step 7: the native balance of the escrow wallet and the minimum check
TonProbe(p) ==
  /\ pc[p] = "tonProbe"
  /\ \E r1 \in {"ok", "error"}, r2 \in {"ok", "error"}, r3 \in ProbeResults :
       LET probe == nativeBalance(r1, r2, r3, escrowTon, escrowTon, escrowTon)
       IN IF ~probe.ok
            THEN Fail(p, "BalanceProbeFailed") /\ UNCHANGED log
          ELSE IF BelowMinimum(probe.balance)
            THEN Fail(p, "InsufficientTon") /\ Logged(p, "tonProbe", probe.balance)
          ELSE Goto(p, "tokenProbe") /\ Logged(p, "tonProbe", probe.balance)
  /\ UNCHANGED <<storeVars, outsideRelease, chainVars, runs, localVars, afterRelease, histVars>>

\* (mutation) the zero-balance guard is missing
IsEmptyBalance_Never(b) == FALSE

\* (mutation) the zero-balance guard tests for a negative balance
IsEmptyBalance_Negative(b) == b < 0

\* the zero-balance guard on the balance read
IsEmptyBalance(b) == b = 0

\* steps 8 to 11: the token wallet of the escrow wallet, its balance, and
\* the split of the balance read with its validations
TokenProbe(p) ==
  /\ pc[p] = "tokenProbe"
  /\ \E read \in {"ok", "error"} :
       IF read = "error"
         THEN /\ Fail(p, "TokenProbeFailed")
              /\ UNCHANGED <<log, totalBalance, serverAmount, finalSellerAmount>>
       ELSE /\ totalBalance' = [totalBalance EXCEPT ![p] = tokenBalance]
            /\ IF IsEmptyBalance(tokenBalance)
                 THEN /\ Fail(p, "EmptyBalance")
                      /\ Logged(p, "tokenProbe", tokenBalance)
                      /\ UNCHANGED <<serverAmount, finalSellerAmount>>
               ELSE IF SplitError(tokenBalance) # "none"
                 THEN /\ Fail(p, SplitError(tokenBalance))
                      /\ Logged(p, "tokenProbe", tokenBalance)
                      /\ UNCHANGED <<serverAmount, finalSellerAmount>>
               ELSE /\ Goto(p, "feeTransfer")
                    /\ serverAmount' =
                         [serverAmount EXCEPT ![p] = splitServerAmount(tokenBalance)]
                    /\ finalSellerAmount' =
                         [finalSellerAmount EXCEPT ![p] = splitFinalSellerAmount(tokenBalance)]
                    /\ log' = [log EXCEPT ![p] =
                                 @ \o << [ev |-> "tokenProbe", amount |-> tokenBalance],
                                         [ev |-> "split", amount |-> tokenBalance] >>]
  /\ UNCHANGED <<storeVars, outsideRelease, chainVars, runs, result, afterRelease, histVars>>

TransferResults == {"ok", "rejected", "error"}

\* (mutation) the error of the fee transfer is logged and swallowed
TransferFailed_FeeSwallowed(p, r) ==
  IF pc[p] = "feeTransfer"
    THEN Goto(p, "sellerTransfer")
    ELSE Fail(p, IF r = "rejected" THEN "TransferRejected" ELSE "TransferFailed")

\* the catch block around a transfer: a rejected external message is
\* rethrown with an explanation, any other error as it is
TransferFailed(p, r) ==
  Fail(p, IF r = "rejected" THEN "TransferRejected" ELSE "TransferFailed")

\* steps 12 and 13: the fee transfer to the platform wallet
FeeTransfer(p) ==
  /\ pc[p] = "feeTransfer"
  /\ \E r \in TransferResults :
       IF r = "ok"
         THEN /\ pending' = Append(pending, [type |-> "fee", amount |-> serverAmount[p]])
              /\ feeCount' = feeCount + 1
              /\ feeSum' = feeSum + serverAmount[p]
              /\ Logged(p, "feeSubmit", serverAmount[p])
              /\ Goto(p, "sellerTransfer")
         ELSE /\ TransferFailed(p, r)
              /\ Logged(p, "feeFail", serverAmount[p])
              /\ UNCHANGED <<pending, feeCount, feeSum>>
  /\ UNCHANGED <<storeVars, outsideRelease, deposit, tokenBalance, escrowTon, serverTon, pendingTon,
                 runs, localVars, afterRelease,
                 released, sellerCount, sellerSum, fundCount, overlapped>>

\* step 14: the seller transfer, and the success result
SellerTransfer(p) ==
  /\ pc[p] = "sellerTransfer"
  /\ \E r \in TransferResults :
       IF r = "ok"
         THEN /\ pending' = Append(pending, [type |-> "seller", amount |-> finalSellerAmount[p]])
              /\ sellerCount' = sellerCount + 1
              /\ sellerSum' = sellerSum + finalSellerAmount[p]
              /\ Logged(p, "sellerSubmit", finalSellerAmount[p])
              /\ pc' = [pc EXCEPT ![p] = "done"]
              /\ outcome' = [outcome EXCEPT ![p] = "Released"]
              /\ UNCHANGED raised
              /\ result' = [result EXCEPT ![p] =
                              [success |-> TRUE,
                               serverAmount |-> serverAmount[p],
                               sellerAmount |-> finalSellerAmount[p],
                               totalAmount |-> totalBalance[p]]]
              /\ released' = TRUE
         ELSE /\ TransferFailed(p, r)
              /\ Logged(p, "sellerFail", finalSellerAmount[p])
              /\ UNCHANGED <<pending, sellerCount, sellerSum, result, released>>
  /\ UNCHANGED <<storeVars, outsideRelease, deposit, tokenBalance, escrowTon, serverTon, pendingTon,
                 runs, totalBalance, serverAmount, finalSellerAmount, afterRelease,
                 feeCount, feeSum, fundCount, overlapped>>

(* ---------------- the ledger ---------------- *)
\* the network applies the oldest submitted token transfer: the token wallet
\* debits it when the balance covers it and bounces it otherwise
ChainApplyToken ==
  /\ pending # <<>>
  /\ tokenBalance' = IF Head(pending).amount <= tokenBalance
                       THEN tokenBalance - Head(pending).amount
                       ELSE tokenBalance
  /\ pending' = Tail(pending)
  /\ UNCHANGED <<storeVars, outsideRelease, deposit, escrowTon, serverTon, pendingTon,
                 pc, runs, outcome, raised, localVars, log, afterRelease, histVars>>

\* the network applies a submitted funding transfer
ChainApplyTon ==
  /\ pendingTon > 0
  /\ pendingTon' = pendingTon - 1
  /\ IF amountToSend <= serverTon
       THEN /\ serverTon' = serverTon - amountToSend
            /\ escrowTon' = escrowTon + amountToSend
       ELSE UNCHANGED <<serverTon, escrowTon>>
  /\ UNCHANGED <<storeVars, outsideRelease, deposit, tokenBalance, pending,
                 pc, runs, outcome, raised, localVars, log, afterRelease, histVars>>

Next ==
  \/ \E p \in Procs : Start(p)
  \/ \E p \in Procs : SendTon(p)
  \/ \E p \in Procs : ResolveOrder(p)
  \/ \E p \in Procs : TonProbe(p)
  \/ \E p \in Procs : TokenProbe(p)
  \/ \E p \in Procs : FeeTransfer(p)
  \/ \E p \in Procs : SellerTransfer(p)
  \/ ChainApplyToken
  \/ ChainApplyTon

Spec == Init /\ [][Next]_vars

(* ---------------- the split over every total ---------------- *)
\* an invocation of the timer that has resolved the order, funded the escrow
\* wallet and is about to read the token balance t, for every t of
\* 1..MaxTotal
SplitInit ==
  /\ walletDoc = [exists |-> TRUE, mnemonic |-> PlainPhrase("a", MnemonicLength),
                  walletAddress |-> "escrowA", itemId |-> TRUE]
  /\ listing = "wallet"
  /\ profileWallet = TRUE
  /\ serverMnemonicSet = TRUE
  /\ serverAddressSet = TRUE
  /\ deposit \in 1..MaxTotal
  /\ tokenBalance = deposit
  /\ pending = <<>>
  /\ escrowTon = MIN_TON_FOR_EXTERNAL_MESSAGE
  /\ serverTon = 330000000
  /\ pendingTon = 1
  /\ pc = [p \in Procs |-> IF p = "timer" THEN "tokenProbe" ELSE "idle"]
  /\ runs = [p \in Procs |-> IF p = "timer" THEN 1 ELSE 0]
  /\ outcome = [p \in Procs |-> "none"]
  /\ raised = [p \in Procs |-> FALSE]
  /\ totalBalance = [p \in Procs |-> 0]
  /\ serverAmount = [p \in Procs |-> 0]
  /\ finalSellerAmount = [p \in Procs |-> 0]
  /\ result = [p \in Procs |-> NoResult]
  /\ log = [p \in Procs |->
              IF p = "timer"
                THEN << [ev |-> "fund", amount |-> amountToSend],
                        [ev |-> "sellerResolved", amount |-> 0],
                        [ev |-> "restored", amount |-> 0],
                        [ev |-> "tonProbe", amount |-> MIN_TON_FOR_EXTERNAL_MESSAGE] >>
                ELSE <<>>]
  /\ afterRelease = [p \in Procs |-> FALSE]
  /\ released = FALSE
  /\ feeCount = 0 /\ sellerCount = 0 /\ feeSum = 0 /\ sellerSum = 0
  /\ fundCount = 1
  /\ overlapped = FALSE
  /\ NoStoreCall
  /\ NoSellerCall
  /\ NoProbe
  /\ timers = {}
  /\ NoPayment

SplitNext ==
  \/ TokenProbe("timer")
  \/ FeeTransfer("timer")
  \/ SellerTransfer("timer")
  \/ ChainApplyToken
  \/ ChainApplyTon

SplitSpec == SplitInit /\ [][SplitNext]_vars

(* ---------------- the restore over every stored phrase ---------------- *)
\* an invocation of the timer that has funded the escrow wallet and is about
\* to resolve the order and restore the escrow wallet, for every stored
\* phrase of up to MaxWords words with up to MaxPad stray spaces
RestoreInit ==
  /\ walletDoc \in
       [exists : {TRUE},
        mnemonic : {Phrase("a", n, lead, gap, trail) :
                      n \in 0..MaxWords, lead \in 0..MaxPad,
                      gap \in 0..MaxPad, trail \in 0..MaxPad},
        walletAddress : {"escrowA"}, itemId : {TRUE}]
  /\ listing = "wallet"
  /\ profileWallet = TRUE
  /\ serverMnemonicSet = TRUE
  /\ serverAddressSet = TRUE
  /\ deposit = 30
  /\ tokenBalance = deposit
  /\ pending = <<>>
  /\ escrowTon = MIN_TON_FOR_EXTERNAL_MESSAGE
  /\ serverTon = 330000000
  /\ pendingTon = 1
  /\ pc = [p \in Procs |-> IF p = "timer" THEN "resolve" ELSE "idle"]
  /\ runs = [p \in Procs |-> IF p = "timer" THEN 1 ELSE 0]
  /\ outcome = [p \in Procs |-> "none"]
  /\ raised = [p \in Procs |-> FALSE]
  /\ totalBalance = [p \in Procs |-> 0]
  /\ serverAmount = [p \in Procs |-> 0]
  /\ finalSellerAmount = [p \in Procs |-> 0]
  /\ result = [p \in Procs |-> NoResult]
  /\ log = [p \in Procs |->
              IF p = "timer" THEN << [ev |-> "fund", amount |-> amountToSend] >>
                             ELSE <<>>]
  /\ afterRelease = [p \in Procs |-> FALSE]
  /\ released = FALSE
  /\ feeCount = 0 /\ sellerCount = 0 /\ feeSum = 0 /\ sellerSum = 0
  /\ fundCount = 1
  /\ overlapped = FALSE
  /\ NoStoreCall
  /\ NoSellerCall
  /\ NoProbe
  /\ timers = {}
  /\ NoPayment

RestoreNext ==
  \/ ResolveOrder("timer")
  \/ TonProbe("timer")
  \/ TokenProbe("timer")
  \/ FeeTransfer("timer")
  \/ SellerTransfer("timer")
  \/ ChainApplyToken
  \/ ChainApplyTon

RestoreSpec == RestoreInit /\ [][RestoreNext]_vars

(* ---------------- storeWalletForOrder ---------------- *)
WalletAddress(w) == IF w = "a" THEN "escrowA" ELSE "escrowB"

\* a write raced against the 3 s timeout: it completes in time, it fails or
\* times out and never lands, or it times out and lands all the same (the
\* race does not cancel it)
WriteOutcomes == {"ok", "failed", "late"}
\* writeWithTimeout: true only for a write that completed in time
writeWithTimeout(o) == o = "ok"
\* setDoc with merge: false, and set: the record is replaced by the data
setDoc(old, data, o) == IF o \in {"ok", "late"} THEN data ELSE old

\* a checkout calls storeWalletForOrder with a freshly generated wallet; the
\* words are joined by single spaces into walletData
StoreWalletCall(w, item) ==
  /\ swPc \in {"idle", "done"}
  /\ swCalls < MaxStoreCalls
  /\ swCalls' = swCalls + 1
  /\ swArgs' = [exists |-> TRUE,
                mnemonic |-> PlainPhrase(w, MnemonicLength),
                walletAddress |-> WalletAddress(w),
                itemId |-> item]
  /\ swPc' = "firestore"
  /\ swFirestoreSuccess' = FALSE
  /\ swReturn' = "none"
  /\ UNCHANGED <<walletDoc, realtimeDoc, storedOnce, outsideStore>>

\* the Firestore write
WriteFirestore ==
  /\ swPc = "firestore"
  /\ \E o \in WriteOutcomes :
       /\ walletDoc' = setDoc(walletDoc, swArgs, o)
       /\ swFirestoreSuccess' = writeWithTimeout(o)
  /\ swPc' = "realtime"
  /\ UNCHANGED <<realtimeDoc, swArgs, swReturn, swCalls, storedOnce, outsideStore>>

\* the Realtime Database write, and the value returned
WriteRealtime ==
  /\ swPc = "realtime"
  /\ \E o \in WriteOutcomes :
       LET realtimeSuccess == writeWithTimeout(o)
       IN /\ realtimeDoc' = setDoc(realtimeDoc, swArgs, o)
          /\ swReturn' = IF swFirestoreSuccess \/ realtimeSuccess THEN "true" ELSE "false"
          /\ storedOnce' = (storedOnce \/ swFirestoreSuccess \/ realtimeSuccess)
  /\ swPc' = "done"
  /\ UNCHANGED <<walletDoc, swArgs, swFirestoreSuccess, swCalls, outsideStore>>

\* no release has been invoked
ReleaseNotStarted ==
  /\ pending = <<>>
  /\ escrowTon = 0
  /\ pendingTon = 0
  /\ pc = [p \in Procs |-> "idle"]
  /\ runs = [p \in Procs |-> 0]
  /\ outcome = [p \in Procs |-> "none"]
  /\ raised = [p \in Procs |-> FALSE]
  /\ totalBalance = [p \in Procs |-> 0]
  /\ serverAmount = [p \in Procs |-> 0]
  /\ finalSellerAmount = [p \in Procs |-> 0]
  /\ result = [p \in Procs |-> NoResult]
  /\ log = [p \in Procs |-> <<>>]
  /\ afterRelease = [p \in Procs |-> FALSE]
  /\ released = FALSE
  /\ feeCount = 0 /\ sellerCount = 0 /\ feeSum = 0 /\ sellerSum = 0
  /\ fundCount = 0
  /\ overlapped = FALSE

\* no release has been invoked and the escrow wallet is empty
ReleaseIdle ==
  /\ deposit = 0
  /\ tokenBalance = 0
  /\ ReleaseNotStarted

StoreInit ==
  /\ walletDoc = NoWalletDoc
  /\ listing = "wallet"
  /\ profileWallet = TRUE
  /\ serverMnemonicSet = TRUE
  /\ serverAddressSet = TRUE
  /\ serverTon = 330000000
  /\ ReleaseIdle
  /\ NoStoreCall
  /\ NoSellerCall
  /\ NoProbe
  /\ timers = {}
  /\ NoPayment

StoreNext ==
  \/ \E w \in Wallets, item \in BOOLEAN : StoreWalletCall(w, item)
  \/ WriteFirestore
  \/ WriteRealtime

StoreSpec == StoreInit /\ [][StoreNext]_vars

(* ---------------- the wallet record, stored and then read ---------------- *)
\* the checkout stores the wallet record of the order, the buyer has paid 30
\* into the escrow wallet, and the release is triggered by hand
StoreReleaseInit ==
  /\ walletDoc = NoWalletDoc
  /\ listing = "wallet"
  /\ profileWallet = TRUE
  /\ serverMnemonicSet = TRUE
  /\ serverAddressSet = TRUE
  /\ serverTon = 330000000
  /\ deposit = 30
  /\ tokenBalance = deposit
  /\ ReleaseNotStarted
  /\ NoStoreCall
  /\ NoSellerCall
  /\ NoProbe
  /\ timers = {}
  /\ NoPayment

StoreReleaseNext ==
  \/ \E w \in Wallets, item \in BOOLEAN : StoreWalletCall(w, item)
  \/ WriteFirestore
  \/ WriteRealtime
  \/ Start("manual")
  \/ SendTon("manual")
  \/ ResolveOrder("manual")
  \/ TonProbe("manual")
  \/ TokenProbe("manual")
  \/ FeeTransfer("manual")
  \/ SellerTransfer("manual")
  \/ ChainApplyToken
  \/ ChainApplyTon

StoreReleaseSpec == StoreReleaseInit /\ [][StoreReleaseNext]_vars

(* ---------------- storeTransaction ---------------- *)
Writes == {"ok", "failed"}

\* (mutation) the document is added beside the one it should replace
putDoc_Added(store, document) == store \cup {document}

\* setDoc(doc(collection, id), data, { merge: false })
putDoc(store, document) == {x \in store : x.id # document.id} \cup {document}

\* the document of a transaction: its id is the transaction hash
transactionData(type, hash, order, amount) ==
  [id |-> hash, type |-> type, transactionHash |-> hash,
   orderId |-> order, amount |-> amount]

\* (mutation) the write error is rethrown
storeTransaction_Rethrows(write) ==
  [called |-> TRUE, returned |-> write = "ok", threw |-> write # "ok"]

\* true after the write, false from the catch block
storeTransaction(write) ==
  [called |-> TRUE, returned |-> write = "ok", threw |-> FALSE]

\* the hashes a client may post: that of the deposit, and one of its own
BuyerHashes == {<<"cell", 1>>, <<"client", 1>>}

\* POST /api/transactions/buyer-to-server with every field present:
\* storeTransaction, and its value in the response
BuyerPost(h, o) ==
  /\ buyerPosts < MaxBuyerPosts
  /\ buyerPosts' = buyerPosts + 1
  /\ \E write \in Writes :
       /\ transactions' =
            IF write = "ok"
              THEN putDoc(transactions, transactionData("buyer_to_server", h, o, 50))
              ELSE transactions
       /\ buyerStore' = storeTransaction(write)
  /\ UNCHANGED <<storeVars, releaseVars, walletStoreVars, timers, sellerVars,
                 probeVars, orderDeposit, serverUsdt, payPending, txs, payPc, payOrder, payAmount, payTotal,
                 payOutcome, payResult, recPc, recHash, recOutcome, recStore>>

(* ---------------- processPayment ---------------- *)
\* what processPayment and its recorder neither read nor write
outsidePay == <<storeVars, walletStoreVars, sellerVars, probeVars, orderDeposit, deposit, tokenBalance, pending,
                escrowTon, pendingTon, pc, runs, outcome, raised, localVars,
                log, afterRelease, histVars>>

\* the throw paths: the catch block rethrows and the route answers 500
PayFail(c, reason) ==
  /\ payPc' = [payPc EXCEPT ![c] = "done"]
  /\ payOutcome' = [payOutcome EXCEPT ![c] = reason]

PayGoto(c, label) ==
  /\ payPc' = [payPc EXCEPT ![c] = label]
  /\ UNCHANGED payOutcome

\* sellerAmount = amount * 95 / 100, truncated; the server keeps the rest
paySellerAmount(a) == (a * sellerPercentage) \div 100
payServerAmount(a) == a - paySellerAmount(a)

\* a request reaches processPayment: the inputs are validated and the
\* configuration is read (a is the amount of the request, 0 for none); then
\* the amount to process (the amount of the request, or the whole token
\* balance of the platform wallet), the zero check, and the gas check
\* limit is the number of requests made
PayRequest(c, o, a, limit) ==
  /\ payPc[c] = "idle"
  /\ c <= limit
  /\ \A b \in PayCalls : b < c => payPc[b] # "idle"
  /\ payOrder' = [payOrder EXCEPT ![c] = o]
  /\ payAmount' = [payAmount EXCEPT ![c] = a]
  /\ \E read \in {"ok", "error"} :
       LET amountToProcess == IF a # 0 THEN a ELSE serverUsdt
       IN IF ~serverAddressSet \/ ~serverMnemonicSet
            THEN PayFail(c, "NotConfigured") /\ UNCHANGED payTotal
          ELSE IF read = "error"
            THEN PayFail(c, "ReadFailed") /\ UNCHANGED payTotal
          ELSE /\ payTotal' = [payTotal EXCEPT ![c] = amountToProcess]
               /\ IF amountToProcess = 0 THEN PayFail(c, "ZeroAmount")
                  ELSE IF serverTon < JETTON_TRANSFER_GAS_FEES
                    THEN PayFail(c, "InsufficientGas")
                  ELSE PayGoto(c, "send")
  /\ UNCHANGED <<outsidePay, serverTon, timers, serverUsdt, payPending, txs,
                 payResult, recPc, recHash, recOutcome, recStore,
                 transactions, buyerPosts, buyerStore>>

PayCall(c, o, a) == PayRequest(c, o, a, MaxPayCalls)

\* the payout to the seller; once it is submitted the recorder is registered
\* with setTimeout and the success result is returned at once
PaySend(c) ==
  /\ payPc[c] = "send"
  /\ \E r \in {"ok", "error"} :
       IF r = "error"
         THEN /\ PayFail(c, "TransferFailed")
              /\ UNCHANGED <<payPending, timers, payResult>>
         ELSE /\ payPending' = Append(payPending,
                                  [call |-> c, amount |-> paySellerAmount(payTotal[c])])
              /\ timers' = timers \cup {[task |-> "recorder", call |-> c]}
              /\ payResult' = [payResult EXCEPT ![c] =
                                 [success |-> TRUE,
                                  sellerAmount |-> paySellerAmount(payTotal[c]),
                                  serverAmount |-> payServerAmount(payTotal[c]),
                                  totalAmount |-> payTotal[c]]]
              /\ payPc' = [payPc EXCEPT ![c] = "done"]
              /\ payOutcome' = [payOutcome EXCEPT ![c] = "Success"]
  /\ UNCHANGED <<outsidePay, serverTon, serverUsdt, txs, payOrder, payAmount, payTotal,
                 recPc, recHash, recOutcome, recStore,
                 transactions, buyerPosts, buyerStore>>

\* the hash of the transaction at position lt of the wallet's history: the
\* hash of its cell, or the address and lt when the cell cannot be hashed
transactionHash(tx, lt) == IF tx.hashable THEN <<"cell", lt>> ELSE <<"lt", lt>>

RecorderEnd(c, how) ==
  /\ recPc' = [recPc EXCEPT ![c] = "done"]
  /\ recOutcome' = [recOutcome EXCEPT ![c] = how]

\* the recorder's timer fires: after its 2 s wait it asks for the latest
\* transactions of the platform token wallet and takes the newest
RecorderQuery(c) ==
  /\ [task |-> "recorder", call |-> c] \in timers
  /\ timers' = timers \ {[task |-> "recorder", call |-> c]}
  /\ \E query \in {"ok", "error"} :
       IF query = "error"
         THEN RecorderEnd(c, "QueryFailed") /\ UNCHANGED recHash
       ELSE IF txs = <<>>
         THEN RecorderEnd(c, "NoTransactions") /\ UNCHANGED recHash
       ELSE /\ recHash' = [recHash EXCEPT ![c] = transactionHash(txs[Len(txs)], Len(txs))]
            /\ recPc' = [recPc EXCEPT ![c] = "store"]
            /\ UNCHANGED recOutcome
  /\ UNCHANGED <<outsidePay, serverTon, serverUsdt, payPending, txs, payPc, payOrder,
                 payAmount, payTotal, payOutcome, payResult, recStore,
                 transactions, buyerPosts, buyerStore>>

\* the recorder calls storeTransaction; an exception would be caught by its
\* own try block, and the value returned is not looked at
RecorderStore(c) ==
  /\ recPc[c] = "store"
  /\ \E write \in Writes :
       /\ transactions' =
            IF write = "ok"
              THEN putDoc(transactions,
                          transactionData("server_to_seller", recHash[c], payOrder[c],
                                          paySellerAmount(payTotal[c])))
              ELSE transactions
       /\ recStore' = [recStore EXCEPT ![c] = storeTransaction(write)]
       /\ RecorderEnd(c, IF storeTransaction(write).threw THEN "Caught"
                         ELSE IF storeTransaction(write).returned THEN "Stored"
                         ELSE "NotStored")
  /\ UNCHANGED <<outsidePay, serverTon, timers, serverUsdt, payPending, txs, payPc,
                 payOrder, payAmount, payTotal, payOutcome, payResult, recHash,
                 buyerPosts, buyerStore>>

\* the network applies the oldest submitted payout: without gas the message
\* is dropped; else the token wallet gets a transaction, and debits the
\* amount when its balance covers it
ChainApplyPay ==
  /\ payPending # <<>>
  /\ payPending' = Tail(payPending)
  /\ IF serverTon < JETTON_TRANSFER_GAS_FEES
       THEN UNCHANGED <<serverTon, serverUsdt, txs>>
       ELSE /\ serverTon' = serverTon - JETTON_TRANSFER_GAS_FEES
            /\ serverUsdt' = IF Head(payPending).amount <= serverUsdt
                               THEN serverUsdt - Head(payPending).amount
                               ELSE serverUsdt
            /\ \E hashable \in BOOLEAN :
                 txs' = Append(txs, [call |-> Head(payPending).call, hashable |-> hashable])
  /\ UNCHANGED <<outsidePay, timers, payPc, payOrder, payAmount, payTotal, payOutcome,
                 payResult, recPc, recHash, recOutcome, recStore,
                 transactions, buyerPosts, buyerStore>>

\* the platform wallet holds the buyers' deposits, 30 for order o1 and the
\* rest for order o2: its token wallet has the transaction of a deposit when
\* its balance is positive
PayInit ==
  /\ walletDoc = NoWalletDoc
  /\ listing = "wallet"
  /\ profileWallet = TRUE
  /\ serverMnemonicSet = TRUE
  /\ serverAddressSet \in BOOLEAN
  /\ serverTon \in ServerTonPayInit
  /\ ReleaseIdle
  /\ NoStoreCall
  /\ NoSellerCall
  /\ NoProbe
  /\ timers = {}
  /\ serverUsdt \in ServerUsdtInit
  /\ payPending = <<>>
  /\ txs = IF serverUsdt > 0 THEN << [call |-> 0, hashable |-> TRUE] >> ELSE <<>>
  /\ payPc = [c \in PayCalls |-> "idle"]
  /\ payOrder = [c \in PayCalls |-> "none"]
  /\ payAmount = [c \in PayCalls |-> 0]
  /\ payTotal = [c \in PayCalls |-> 0]
  /\ payOutcome = [c \in PayCalls |-> "none"]
  /\ payResult = [c \in PayCalls |-> NoPayResult]
  /\ recPc = [c \in PayCalls |-> "none"]
  /\ recHash = [c \in PayCalls |-> NoHash]
  /\ recOutcome = [c \in PayCalls |-> "none"]
  /\ recStore = [c \in PayCalls |-> NoStoreResult]
  /\ transactions = {}
  /\ buyerPosts = 0
  /\ buyerStore = NoStoreResult
  /\ orderDeposit = [o \in Orders |->
                       IF serverUsdt = 0 THEN 0
                       ELSE IF o = "o1" THEN 30 ELSE serverUsdt - 30]

PayNext ==
  \/ \E c \in PayCalls, o \in Orders, a \in PayAmounts : PayCall(c, o, a)
  \/ \E c \in PayCalls : PaySend(c)
  \/ \E c \in PayCalls : RecorderQuery(c)
  \/ \E c \in PayCalls : RecorderStore(c)
  \/ ChainApplyPay

PaySpec == PayInit /\ [][PayNext]_vars

(* ---------------- one request more ---------------- *)
\* the requests of PaySpec and another one, for the same order or not
PayAgainNext ==
  \/ \E c \in PayCalls, o \in Orders, a \in PayAmounts :
       PayRequest(c, o, a, MaxPayCalls + 1)
  \/ \E c \in PayCalls : PaySend(c)
  \/ \E c \in PayCalls : RecorderQuery(c)
  \/ \E c \in PayCalls : RecorderStore(c)
  \/ ChainApplyPay

PayAgainSpec == PayInit /\ [][PayAgainNext]_vars

(* ---------------- the transactions collection and its writers ---------------- *)
TxNext ==
  \/ \E c \in PayCalls, o \in Orders, a \in PayAmounts : PayCall(c, o, a)
  \/ \E c \in PayCalls : PaySend(c)
  \/ \E c \in PayCalls : RecorderQuery(c)
  \/ \E c \in PayCalls : RecorderStore(c)
  \/ ChainApplyPay
  \/ \E h \in BuyerHashes, o \in Orders : BuyerPost(h, o)

TxSpec == PayInit /\ [][TxNext]_vars

(* ---------------- getSellerWalletAddress, step by step ---------------- *)
\* a profile read raced against its 5 s timeout: the snapshot, or the error
\* caught: code 'unavailable', a message with 'offline', the timeout of the
\* race, or another error (permission denied)
ReadOutcomes == {"ok", "unavailable", "offline", "timeout", "denied"}

\* (mutation) every error is retried
Transient_Always(e) == TRUE

\* the test of the catch block of the loop
Transient(e) == e \in {"unavailable", "offline", "timeout"}

\* (mutation) the listing is not looked at
ListingHasWallet_Never(l) == FALSE

\* listing && listing.walletAddress
ListingHasWallet(l) == l = "wallet"

\* the code after the loop: the address of an existing profile that has one
profileAddress(snapshot) == IF snapshot = "withWallet" THEN "profileAddress" ELSE "null"

GsReturn(value) ==
  /\ gsPc' = "done"
  /\ gsReturn' = value
  /\ gsThrew' = FALSE

\* getSellerWalletAddress(sellerId, listing) is called: the listing's address
\* is returned, or the retry loop is entered
GetSellerCall ==
  /\ gsPc = "idle"
  /\ IF ListingHasWallet(listing)
       THEN GsReturn("listingAddress") /\ UNCHANGED retries
       ELSE /\ gsPc' = "read"
            /\ retries' = initialRetries
            /\ UNCHANGED <<gsReturn, gsThrew>>
  /\ UNCHANGED <<storeVars, releaseVars, walletStoreVars, timers, payVars, probeVars,
                 userDoc, lastError, gsReads>>

\* one turn of the loop: the read, and what follows it up to the next wait or
\* the return; every throw lands in the outer catch block, which returns null
ProfileRead ==
  /\ gsPc = "read"
  /\ \E o \in ReadOutcomes, exists \in BOOLEAN :
       /\ gsReads' = Append(gsReads, o)
       /\ IF o = "ok"
            THEN LET snapshot == IF profileWallet THEN "withWallet"
                                 ELSE IF exists THEN "noWallet"
                                 ELSE "missing"
                 IN /\ userDoc' = snapshot
                    /\ GsReturn(profileAddress(snapshot))
                    /\ UNCHANGED <<retries, lastError>>
            ELSE /\ lastError' = o
                 /\ UNCHANGED userDoc
                 /\ IF Transient(o)
                      THEN /\ retries' = retries - 1
                           /\ IF retries - 1 > 0
                                THEN /\ gsPc' = "wait"
                                     /\ UNCHANGED <<gsReturn, gsThrew>>
                                ELSE GsReturn("null")
                      ELSE /\ GsReturn("null")
                           /\ UNCHANGED retries
  /\ UNCHANGED <<storeVars, releaseVars, walletStoreVars, timers, payVars, probeVars>>

\* the 1 s wait before the next attempt is over
ProfileWait ==
  /\ gsPc = "wait"
  /\ gsPc' = "read"
  /\ UNCHANGED <<storeVars, releaseVars, walletStoreVars, timers, payVars, probeVars,
                 retries, userDoc, lastError, gsReads, gsReturn, gsThrew>>

\* a listing with a seller id, with or without a wallet address, and a
\* profile with or without one
ProfileInit ==
  /\ walletDoc = NoWalletDoc
  /\ listing \in {"wallet", "noWallet"}
  /\ profileWallet \in BOOLEAN
  /\ serverMnemonicSet = TRUE
  /\ serverAddressSet = TRUE
  /\ serverTon = 330000000
  /\ ReleaseIdle
  /\ NoStoreCall
  /\ NoSellerCall
  /\ NoProbe
  /\ timers = {}
  /\ NoPayment

ProfileNext ==
  \/ GetSellerCall
  \/ ProfileRead
  \/ ProfileWait

\* every await of the call is bounded by a timer (5 s for a read, 1 s for a
\* wait), so the call goes on as long as it can
ProfileSpec == ProfileInit /\ [][ProfileNext]_vars /\ WF_vars(ProfileNext)

(* ---------------- the native-balance probe over every answer ---------------- *)
\* balances a query may answer: the three queries are made one after the
\* other and the balance may change between them
ProbeBalances == {0, 50000000, MIN_TON_FOR_EXTERNAL_MESSAGE}

\* step 7 on its own: escrowTonBalance, or the error thrown
ProbeApply ==
  /\ probePc = "idle"
  /\ probePc' = "done"
  /\ probeResult' = nativeBalance(probeArgs.r1, probeArgs.r2, probeArgs.r3,
                                  probeArgs.b1, probeArgs.b2, probeArgs.b3)
  /\ UNCHANGED <<storeVars, releaseVars, walletStoreVars, timers, payVars,
                 sellerVars, probeArgs>>

ProbeInit ==
  /\ walletDoc = NoWalletDoc
  /\ listing = "wallet"
  /\ profileWallet = TRUE
  /\ serverMnemonicSet = TRUE
  /\ serverAddressSet = TRUE
  /\ serverTon = 330000000
  /\ ReleaseIdle
  /\ NoStoreCall
  /\ NoSellerCall
  /\ probePc = "idle"
  /\ probeArgs \in [r1 : {"ok", "error"}, r2 : {"ok", "error"}, r3 : ProbeResults,
                     b1 : ProbeBalances, b2 : ProbeBalances, b3 : ProbeBalances]
  /\ probeResult = NoProbeResult
  /\ timers = {}
  /\ NoPayment

ProbeNext == ProbeApply

ProbeSpec == ProbeInit /\ [][ProbeNext]_vars

(* ---------------- properties ---------------- *)
\* positions of an event in the log of the current invocation of p
Positions(p, e) == {i \in DOMAIN log[p] : log[p][i].ev = e}
Count(p, e) == Cardinality(Positions(p, e))
NoTransferEvent(p) ==
  \A i \in DOMAIN log[p] :
    log[p][i].ev \notin {"feeSubmit", "feeFail", "sellerSubmit", "sellerFail"}
NoTransferSubmitted(p) == ~InLog(p, "feeSubmit") /\ ~InLog(p, "sellerSubmit")
\* e occurs before position j
Before(p, j, e) == \E i \in 1..(j - 1) : log[p][i].ev = e
\* floor(t * 5 / 100), stated without the division of the code
FloorFee(t) == CHOOSE f \in 0..t : 100 * f <= 5 * t /\ 5 * t < 100 * (f + 1)

\* C1: when the timer-fired and the manually triggered invocation for the
\* order have run at the same time, with every transfer submission accepted,
\* and both have ended, one of them with success, exactly one
\* fee transfer and exactly one seller transfer were submitted in total.
C1_ExactlyOnePair ==
  ( /\ overlapped
    /\ runs["timer"] = 1 /\ runs["manual"] = 1
    /\ pc["timer"] = "done" /\ pc["manual"] = "done"
    /\ released
    /\ \A p \in Procs : ~InLog(p, "feeFail") /\ ~InLog(p, "sellerFail") )
  => (feeCount = 1 /\ sellerCount = 1)

\* C2: an invocation started after the order was fully released submits no
\* fee and no seller transfer, never ends released, and once it has read the
\* token balance it has read zero and ended with the empty-balance failure.
C2_ReinvocationIsNoOp ==
  \A p \in Procs :
    afterRelease[p] =>
      /\ NoTransferEvent(p)
      /\ outcome[p] # "Released"
      /\ totalBalance[p] = 0
      /\ ~InLog(p, "split")
      /\ InLog(p, "tokenProbe") => outcome[p] = "EmptyBalance"

C2_Witness ==
  \E p \in Procs :
    /\ afterRelease[p] /\ outcome[p] = "EmptyBalance"
    /\ runs["manual"] = MaxManual
    /\ feeCount = 1 /\ sellerCount = 1

\* C3: after release attempts for the order that ran one after the other,
\* once one of them has returned success, exactly one fee transfer and
\* exactly one seller transfer have been submitted for the order, and their
\* amounts sum to the deposit.
C3_OnePairSumsToDeposit ==
  (released /\ ~overlapped) =>
    /\ feeCount = 1 /\ sellerCount = 1
    /\ feeSum + sellerSum = deposit

\* C4: the fee and the final seller amount of a computed split sum to the
\* balance read, and the result returned on success carries exactly the fee
\* and seller amounts submitted and the balance read.
C4_SplitSumsAndResult ==
  \A p \in Procs :
    /\ InLog(p, "split") =>
         /\ totalBalance[p] > 0
         /\ serverAmount[p] + finalSellerAmount[p] = totalBalance[p]
    /\ outcome[p] = "Released" =>
         /\ result[p].success
         /\ \E i \in Positions(p, "feeSubmit") : log[p][i].amount = result[p].serverAmount
         /\ \E i \in Positions(p, "sellerSubmit") : log[p][i].amount = result[p].sellerAmount
         /\ \E i \in Positions(p, "tokenProbe") : log[p][i].amount = result[p].totalAmount
         /\ result[p].serverAmount + result[p].sellerAmount = result[p].totalAmount
    /\ outcome[p] # "Released" => result[p] = NoResult

C4_Witness ==
  \E p \in Procs :
    /\ outcome[p] = "Released"
    /\ result[p].totalAmount = 30
    /\ result[p].serverAmount = 1 /\ result[p].sellerAmount = 29

\* C5: for every total whose split is computed, the fee is floor(total*5/100)
\* and the seller amount is total minus the fee.
C5_SplitIsFloorFivePercent ==
  \A p \in Procs :
    InLog(p, "split") =>
      /\ serverAmount[p] = FloorFee(totalBalance[p])
      /\ finalSellerAmount[p] = totalBalance[p] - serverAmount[p]
      /\ 100 * serverAmount[p] <= 5 * totalBalance[p]

C5_Witness ==
  /\ InLog("timer", "split")
  /\ totalBalance["timer"] = 119
  /\ serverAmount["timer"] = 5 /\ finalSellerAmount["timer"] = 114

\* C6: a positive balance whose 5% floors to zero (1..19) is split into fee 0
\* and seller = total and the release continues; only a zero balance makes
\* the split fail.
C6_DustSplitContinues ==
  \A p \in Procs :
    /\ totalBalance[p] \in 1..19 =>
         /\ InLog(p, "split")
         /\ serverAmount[p] = 0
         /\ finalSellerAmount[p] = totalBalance[p]
    /\ outcome[p] \in {"InvalidTotalBalance", "InvalidServerAmount", "InvalidSellerAmount"}
         => totalBalance[p] = 0

\* C7: an invocation that read a zero token balance ended with the
\* empty-balance failure, computed no split and submitted no transfer.
C7_ZeroBalanceFails ==
  \A p \in Procs :
    (\E i \in Positions(p, "tokenProbe") : log[p][i].amount = 0) =>
      /\ outcome[p] = "EmptyBalance"
      /\ pc[p] = "done"
      /\ ~InLog(p, "split")
      /\ NoTransferEvent(p)

C7_Witness ==
  \E p \in Procs :
    /\ ~afterRelease[p]
    /\ outcome[p] = "EmptyBalance"
    /\ \E i \in Positions(p, "tokenProbe") : log[p][i].amount = 0

\* C8: within one invocation the seller transfer is attempted only after the
\* fee transfer was submitted successfully, each at most once, and after a
\* failed fee transfer no seller transfer is attempted.
C8_FeeBeforeSeller ==
  \A p \in Procs :
    /\ \A j \in DOMAIN log[p] :
         LET e == log[p][j].ev
         IN /\ e \in {"sellerSubmit", "sellerFail"} =>
                 /\ Before(p, j, "feeSubmit")
                 /\ ~Before(p, j, "sellerSubmit") /\ ~Before(p, j, "sellerFail")
            /\ e \in {"feeSubmit", "feeFail"} =>
                 ~Before(p, j, "feeSubmit") /\ ~Before(p, j, "feeFail")
            /\ e = "feeFail" =>
                 /\ j = Len(log[p])
                 /\ pc[p] = "done" /\ outcome[p] \in {"TransferRejected", "TransferFailed"}
    /\ pc[p] = "sellerTransfer" => InLog(p, "feeSubmit")

C8_Witness ==
  \E p, q \in Procs :
    /\ InLog(p, "feeSubmit") /\ InLog(p, "sellerSubmit")
    /\ InLog(q, "feeFail") /\ pc[q] = "done"

\* C9: within one invocation the funding call has returned before the escrow
\* balances are probed, the token balance is read before the split is
\* computed, and the split is computed before either transfer is submitted.
C9_FundProbeSplitTransfer ==
  \A p \in Procs :
    /\ \A j \in DOMAIN log[p] :
         LET e == log[p][j].ev
         IN /\ e = "tonProbe" => Before(p, j, "fund")
            /\ e = "tokenProbe" => Before(p, j, "fund") /\ Before(p, j, "tonProbe")
            /\ e = "split" => Before(p, j, "tokenProbe")
            /\ e \in {"feeSubmit", "feeFail", "sellerSubmit", "sellerFail"} =>
                 Before(p, j, "split")
    /\ pc[p] \in {"tonProbe", "tokenProbe"} => InLog(p, "fund")
    /\ pc[p] \in {"feeTransfer", "sellerTransfer"} => InLog(p, "split")

C9_Witness ==
  \E p \in Procs :
    /\ outcome[p] = "Released"
    /\ InLog(p, "fund") /\ InLog(p, "tonProbe") /\ InLog(p, "tokenProbe")
    /\ InLog(p, "split") /\ InLog(p, "feeSubmit") /\ InLog(p, "sellerSubmit")

\* C10: when neither the listing nor the profile yields a seller wallet
\* address, the invocation ends with the seller-wallet-missing failure at the
\* resolution step: it has read neither balance of the escrow wallet and has
\* submitted no token transfer.
SellerUnresolvable == listing # "wallet" /\ ~profileWallet
C10_SellerMissingStopsEarly ==
  \A p \in Procs :
    /\ SellerUnresolvable =>
         /\ pc[p] \in {"idle", "fund", "resolve", "done"}
         /\ outcome[p] \in {"none", "WalletNotFound", "FundingFailed", "NoItemId",
                            "ListingNotFound", "NoSellerId", "SellerWalletMissing"}
         /\ ~InLog(p, "sellerResolved")
    /\ (outcome[p] = "SellerWalletMissing" \/ ~InLog(p, "sellerResolved")) =>
         /\ ~InLog(p, "tonProbe") /\ ~InLog(p, "tokenProbe")
         /\ NoTransferEvent(p)
         /\ totalBalance[p] = 0

C10_Witness ==
  \E p \in Procs :
    /\ SellerUnresolvable
    /\ listing = "noWallet"
    /\ outcome[p] = "SellerWalletMissing"
    /\ tokenBalance > 0

\* C11: the funding transfer is sent only when the escrow wallet holds less
\* than the message-acceptance minimum: no step submits a funding transfer
\* while the escrow wallet already holds MIN_TON_FOR_EXTERNAL_MESSAGE or more.
C11_FundOnlyBelowMinimum ==
  [][fundCount' > fundCount => escrowTon < MIN_TON_FOR_EXTERNAL_MESSAGE]_vars

\* C12: an invocation ends with the transfer-rejected failure only after it
\* has funded the escrow wallet a second time and the re-attempted transfer
\* has failed too.
C12_RejectedTransferRetriedOnce ==
  \A p \in Procs :
    outcome[p] = "TransferRejected" =>
      /\ Count(p, "fund") = 2
      /\ Count(p, "feeFail") = 2 \/ Count(p, "sellerFail") = 2

C14_BusinessOutcomesReturned ==
  \A p \in Procs :
    outcome[p] \in {"EmptyBalance", "SellerWalletMissing"} => ~raised[p]

\* the words of a phrase, counted by where they begin
WordCount(s) ==
  Cardinality({i \in DOMAIN s : s[i] # " " /\ (i = 1 \/ s[i - 1] = " ")})

\* C20: for every stored phrase whose word count is not 24, the restore
\* fails and yields no wallet; an invocation for an order with such a phrase
\* never restores the escrow wallet, never gets past the resolution step,
\* attempts no token transfer, and, once it has resolved the seller and the
\* fee destination, has ended with the invalid-secret failure.
C20_InvalidPhraseNoTransfer ==
  (walletDoc.exists /\ WordCount(walletDoc.mnemonic) # MnemonicLength) =>
    /\ ~restoreWalletFromMnemonic(walletDoc.mnemonic).ok
    /\ restoreWalletFromMnemonic(walletDoc.mnemonic).address = <<>>
    /\ \A p \in Procs :
         /\ ~InLog(p, "restored")
         /\ pc[p] \in {"idle", "fund", "resolve", "done"}
         /\ NoTransferEvent(p)
         /\ (InLog(p, "sellerResolved") /\ serverAddressSet) =>
              outcome[p] = "InvalidSecret" /\ raised[p]

\* 23 words and a doubled space: 24 pieces, one of them empty
C20_Witness ==
  /\ WordCount(walletDoc.mnemonic) = 23
  /\ Len(splitOnSpace(walletDoc.mnemonic)) = 24
  /\ outcome["timer"] = "InvalidSecret"
  /\ tokenBalance = 30 /\ pending = <<>>

\* C15: once storeWalletForOrder has returned true for the order, exactly one
\* release of the order is scheduled or has been started by the timer.
C15_ReleaseScheduledOnStore ==
  swReturn = "true" =>
    Cardinality({t \in timers : t.task = "release"}) + runs["timer"] = 1

\* C19: once a call of storeWalletForOrder has returned true, no step changes
\* the phrase or the address of a stored wallet record.
C19_WalletRecordWrittenOnce ==
  [][storedOnce =>
       /\ walletDoc.exists =>
            /\ walletDoc'.mnemonic = walletDoc.mnemonic
            /\ walletDoc'.walletAddress = walletDoc.walletAddress
       /\ realtimeDoc.exists =>
            /\ realtimeDoc'.mnemonic = realtimeDoc.mnemonic
            /\ realtimeDoc'.walletAddress = realtimeDoc.walletAddress]_vars

\* C16: after every transfer a settlement has submitted, a recorder has been
\* dispatched for it: for a release that submitted its fee or seller
\* transfer a recorder task is pending or a record of the transfer is
\* stored, and for a payment that returned success its recorder is pending
\* or has run.
C16_RecorderAfterEveryTransfer ==
  /\ \A p \in Procs :
       (InLog(p, "feeSubmit") \/ InLog(p, "sellerSubmit")) =>
         \/ \E t \in timers : t.task = "releaseRecorder"
         \/ \E x \in transactions : x.type \in {"custody_to_fee", "custody_to_seller"}
  /\ \A c \in PayCalls :
       payOutcome[c] = "Success" =>
         \/ [task |-> "recorder", call |-> c] \in timers
         \/ recPc[c] # "none"

\* C17: whatever becomes of the recorder of a payment, the payment has
\* returned the success result computed from the amount processed and has
\* thrown nothing; storeTransaction never throws, and the value it returns is
\* true exactly when the write succeeded.
C17_RecorderFailureIsSilent ==
  \A c \in PayCalls :
    /\ ([task |-> "recorder", call |-> c] \in timers \/ recPc[c] # "none") =>
         /\ payPc[c] = "done" /\ payOutcome[c] = "Success"
         /\ payResult[c] = [success |-> TRUE,
                            sellerAmount |-> paySellerAmount(payTotal[c]),
                            serverAmount |-> payServerAmount(payTotal[c]),
                            totalAmount |-> payTotal[c]]
    /\ ~recStore[c].threw
    /\ recOutcome[c] # "Caught"
    /\ recStore[c].called =>
         (recStore[c].returned <=> recOutcome[c] = "Stored")
    /\ recOutcome[c] \in {"QueryFailed", "NoTransactions"} => ~recStore[c].called

\* the write of the record failed after the payout was submitted
C17_Witness ==
  /\ recOutcome[1] = "NotStored"
  /\ recStore[1].called /\ ~recStore[1].returned
  /\ payOutcome[1] = "Success" /\ payResult[1].success
  /\ transactions = {}

\* C18: no two documents of the transactions collection carry the same
\* transaction hash.
C18_OneRecordPerHash ==
  \A x, y \in transactions : x.transactionHash = y.transactionHash => x = y

\* the recorder and a buyer-to-server request have both stored a record
\* under the hash of the same transaction
C18_Witness ==
  /\ recOutcome[1] = "Stored" /\ recHash[1] = <<"cell", 1>>
  /\ buyerPosts = 1 /\ buyerStore.returned
  /\ Cardinality(transactions) = 1

\* C21: an invocation that ended with the wallet-not-found or the
\* seller-wallet-missing failure has submitted no funding transfer.
C21_ResolvedBeforeFunding ==
  \A p \in Procs :
    outcome[p] \in {"WalletNotFound", "SellerWalletMissing"} => ~InLog(p, "fund")

TransientErrors == {"unavailable", "offline", "timeout"}
LastRead == gsReads[Len(gsReads)]

\* C22: the profile is read at most 3 times; every read that was followed by
\* another one failed with a transient error, and a call that still runs has
\* read fewer than 3 times; a read that failed with another error ended the
\* call; the call never throws, and it does return, an address or null.
C22_BoundedProfileRetry ==
  /\ [](/\ Len(gsReads) <= 3
        /\ \A i \in 1..(Len(gsReads) - 1) : gsReads[i] \in TransientErrors
        /\ gsPc \in {"read", "wait"} =>
             /\ Len(gsReads) < 3
             /\ \A i \in DOMAIN gsReads : gsReads[i] \in TransientErrors
        /\ (gsReads # <<>> /\ LastRead \notin TransientErrors) => gsPc = "done"
        /\ ~gsThrew
        /\ gsPc = "done" => gsReturn \in {"listingAddress", "profileAddress", "null"})
  /\ <>(gsPc = "done")

\* three transient failures in a row
C22_Witness ==
  /\ gsPc = "done"
  /\ gsReads = <<"timeout", "unavailable", "offline">>
  /\ gsReturn = "null" /\ ~gsThrew

Strategies == <<"getBalance", "getAccount", "get">>
\* what query i answered, and the balance it gave
Answer(i) == <<probeArgs.r1, probeArgs.r2, probeArgs.r3>>[i]
Balance(i) == <<probeArgs.b1, probeArgs.b2, probeArgs.b3>>[i]

\* C23: the probe makes the direct query, then the account-state query, then
\* the contract call, stopping at the first that succeeds, whose balance is
\* the result; when all three fail the result is zero if the contract call's
\* error names the not-initialized condition, and the probe throws otherwise.
C23_ProbeOrder ==
  probePc = "done" =>
    LET n == Len(probeResult.tried)
    IN /\ n \in 1..3
       /\ probeResult.tried = SubSeq(Strategies, 1, n)
       /\ \A i \in 1..(n - 1) : Answer(i) # "ok"
       /\ Answer(n) = "ok" => probeResult.ok /\ probeResult.balance = Balance(n)
       /\ Answer(n) # "ok" =>
            /\ n = 3
            /\ Answer(3) = "notDeployed" => probeResult.ok /\ probeResult.balance = 0
            /\ Answer(3) = "error" => ~probeResult.ok

\* the first two queries fail and the contract call gives its own balance
C23_Witness ==
  /\ probePc = "done"
  /\ probeArgs.r1 = "error" /\ probeArgs.r2 = "error" /\ probeArgs.r3 = "ok"
  /\ probeArgs.b1 = 0 /\ probeArgs.b2 = 50000000
  /\ probeArgs.b3 = MIN_TON_FOR_EXTERNAL_MESSAGE
  /\ probeResult.balance = MIN_TON_FOR_EXTERNAL_MESSAGE

\* C25: the amounts of a payment are those of the release's split of the
\* same total: the fee is floor(total * 5 / 100) and the seller is paid the
\* total minus the fee.
C25_PaymentSplitIsReleaseSplit ==
  \A c \in PayCalls :
    payResult[c].success =>
      /\ payResult[c].serverAmount = FloorFee(payResult[c].totalAmount)
      /\ payResult[c].sellerAmount = payResult[c].totalAmount - payResult[c].serverAmount
      /\ payResult[c].serverAmount = splitServerAmount(payResult[c].totalAmount)
      /\ payResult[c].sellerAmount = splitFinalSellerAmount(payResult[c].totalAmount)

\* C26: a payment that was sent for an order processed no more than the
\* buyer of that order deposited.
C26_PaymentWithinOwnDeposit ==
  \A c \in PayCalls :
    payOutcome[c] = "Success" => payTotal[c] <= orderDeposit[payOrder[c]]

\* C27: once a call of storeWalletForOrder has returned true for the order,
\* no release that is started ends with the wallet-not-found failure at its
\* first lookup.
C27_StoredWalletIsFound ==
  [][\A p \in Procs :
       (storedOnce /\ runs'[p] > runs[p]) => outcome'[p] # "WalletNotFound"]_vars

\* C28: as long as the release attempts for the order ran one after the
\* other, the fee transfers submitted for it sum to at most floor(5%) of the
\* balance deposited.
C28_TotalFeeWithinFivePercent ==
  ~overlapped => feeSum <= FloorFee(deposit)

\* C29: at most one payout has been submitted for each order.
C29_OnePayoutPerOrder ==
  \A o \in Orders :
    Cardinality({c \in PayCalls : payOrder[c] = o /\ payOutcome[c] = "Success"}) <= 1

\* C30: when payouts for two different orders have been sent, every recorder
\* that stored a record took the hash of the transaction of its own payout,
\* and the record it stored for its order is still in the collection.
C30_RecordIsOwnTransfer ==
  (\A c \in PayCalls : payOutcome[c] = "Success") /\ payOrder[1] # payOrder[2] =>
    \A c \in PayCalls :
      recOutcome[c] = "Stored" =>
        /\ txs[recHash[c][2]].call = c
        /\ \E x \in transactions :
             x.transactionHash = recHash[c] /\ x.orderId = payOrder[c]

====
